---- MODULE Spec2Model ----
(***************************************************************************)
(* A model of helper.py: five independent helper routines over vector      *)
(* datasets, a geodatabase and raster images.  Each routine is one call,   *)
(* stepped statement by statement; library calls that can raise do so      *)
(* nondeterministically.  Each routine has its own specification.          *)
(***************************************************************************)
EXTENDS Integers, Sequences, FiniteSets, TLC

VARIABLES
    pc,          \* position of the running call
    stdout,      \* lines printed so far
    \* ---- subset_aoi
    aoi,         \* argument: area-of-interest frame (sequence of rows)
    shape,       \* argument: frame to be trimmed (sequence of rows)
    intersect,   \* argument
    phase,       \* which try block encloses the running statement
    exc,         \* the exception being handled ("" when none)
    new,         \* local: result of gpd.overlay
    temp_shape,  \* local: result of gpd.tools.sjoin
    osm_id,      \* local: identifier values of the joined rows
    saved,       \* the file at save_fp
    ret,         \* the value returned ("None" while running)
    calls,       \* library calls made so far, each with its outcome
    \* ---- load_shapefile
    shp,         \* the dataset stored at path
    zipcodes,    \* argument (a list; [] when not supplied)
    data,        \* local
    loaded,      \* the frame returned
    \* ---- plot_shapefile
    shapefiles,      \* argument: list of layers
    graph_settings,  \* argument: a dict (empty stands for False too)
    default,         \* local dict of settings after the merge
    canvas,          \* layers drawn on the axes, in order
    plot_i,          \* local counter i
    style,           \* seaborn's process-wide style
    figfile,         \* the file written by savefig
    \* ---- peel_geodatabase
    gdb,         \* the geodatabase at datasrc_path: a sequence of layers
    layers,      \* local: fiona.listlayers(...)
    layer_ix,    \* number of layers of the for loop already taken
    layer_name,  \* local
    features,    \* local
    fi,          \* features of the open collection already iterated
    files,       \* the output directory: path -> file
    \* ---- show_image
    raster,      \* the decoded content of the file at fp
    infrared,    \* argument
    save_path,   \* argument
    im,          \* local array
    displayed,   \* the array handed to plt.imshow
    imgfile      \* the file written by savefig

clipVars == <<aoi, shape, intersect, phase, exc, new, temp_shape, osm_id, saved, ret, calls>>
loadVars == <<shp, zipcodes, data, loaded>>
plotVars == <<shapefiles, graph_settings, default, canvas, plot_i, style, figfile>>
peelVars == <<gdb, layers, layer_ix, layer_name, features, fi, files>>
imageVars == <<raster, infrared, save_path, im, displayed, imgfile>>
vars == <<pc, stdout, clipVars, loadVars, plotVars, peelVars, imageVars>>

(***************************************************************************)
(* Bounds and value sets                                                   *)
(***************************************************************************)
MaxRows == 2

Cells == {"p", "q"}
Geoms == (SUBSET Cells) \ {{}}
OsmIds == {"w1", "w2"}

SeqsUpTo(S, n) == UNION {[1..k -> S] : k \in 0..n}

AoiRow == [name : {"aoi"}, geometry : Geoms]
ShapeRow == [osm_id : OsmIds, geometry : Geoms]

(***************************************************************************)
(* Frame operations (pandas / geopandas)                                   *)
(***************************************************************************)
Intersects(g, h) == g \cap h # {}
Within(g, h) == g \subseteq h

Column(df, name) == [k \in 1..Len(df) |-> df[k][name]]

Isin(col, values) ==
    [k \in 1..Len(col) |-> \E m \in 1..Len(values) : values[m] = col[k]]

RECURSIVE BoolIndex(_, _)
BoolIndex(df, mask) ==
    IF df = <<>> THEN <<>>
    ELSE (IF Head(mask) THEN <<Head(df)>> ELSE <<>>) \o BoolIndex(Tail(df), Tail(mask))

\* op='within' in place of op='intersects'.
SJoinPredicateWithin(g, h) == Within(g, h)
SJoinPredicate(g, h) == Intersects(g, h)

RECURSIVE JoinRight(_, _, _, _)
JoinRight(left, i, right, j) ==
    IF j > Len(right) THEN <<>>
    ELSE (IF SJoinPredicate(left[i].geometry, right[j].geometry)
          THEN <<[name |-> left[i].name, geometry |-> left[i].geometry,
                  index_right |-> j - 1, osm_id |-> right[j].osm_id]>>
          ELSE <<>>) \o JoinRight(left, i, right, j + 1)

RECURSIVE SJoinFrom(_, _, _)
SJoinFrom(left, right, i) ==
    IF i > Len(left) THEN <<>>
    ELSE JoinRight(left, i, right, 1) \o SJoinFrom(left, right, i + 1)

SJoin(left, right) == SJoinFrom(left, right, 1)

RECURSIVE OverlayRight(_, _, _, _)
OverlayRight(df1, i, df2, j) ==
    IF j > Len(df2) THEN <<>>
    ELSE (IF Intersects(df1[i].geometry, df2[j].geometry)
          THEN <<[name |-> df1[i].name, osm_id |-> df2[j].osm_id,
                  geometry |-> df1[i].geometry \cap df2[j].geometry]>>
          ELSE <<>>) \o OverlayRight(df1, i, df2, j + 1)

RECURSIVE OverlayFrom(_, _, _)
OverlayFrom(df1, df2, i) ==
    IF i > Len(df1) THEN <<>>
    ELSE OverlayRight(df1, i, df2, 1) \o OverlayFrom(df1, df2, i + 1)

OverlayIntersection(df1, df2) == OverlayFrom(df1, df2, 1)

Absent == [state |-> "absent", rows |-> <<>>]
Written(df) == [state |-> "written", rows |-> df]
Partial == [state |-> "partial", rows |-> <<>>]

(***************************************************************************)
(* subset_aoi                                                              *)
(***************************************************************************)
Emit(line) == stdout' = Append(stdout, line)

Called(fn, ok) == calls' = Append(calls, [fn |-> fn, ok |-> ok])

\* An exception raised at the running statement goes to the handler of the
\* enclosing try block, or to the caller when there is none.
Raise(e) ==
    /\ exc' = e
    /\ pc' = CASE phase = "try" -> "except"
               [] phase = "fallback" -> "except2"
               [] OTHER -> "raised"

\* A routine that is not the one called keeps its variables at rest.
IdleClip ==
    /\ aoi = <<>> /\ shape = <<>> /\ intersect = FALSE /\ phase = "try" /\ exc = ""
    /\ new = <<>> /\ temp_shape = <<>> /\ osm_id = <<>> /\ saved = Absent
    /\ ret = "None" /\ calls = <<>>
IdleLoad == shp = <<>> /\ zipcodes = <<>> /\ data = <<>> /\ loaded = <<>>
IdlePlot ==
    /\ shapefiles = <<>> /\ graph_settings = <<>> /\ default = <<>> /\ canvas = <<>>
    /\ plot_i = 0 /\ style = "darkgrid" /\ figfile = <<>>
IdlePeel ==
    /\ gdb = <<>> /\ layers = <<>> /\ layer_ix = 0 /\ layer_name = "" /\ features = <<>>
    /\ fi = 0 /\ files = <<>>
IdleImage ==
    /\ raster = <<>> /\ infrared = FALSE /\ save_path = "" /\ im = <<>>
    /\ displayed = <<>> /\ imgfile = <<>>

InitSubsetAoi ==
    /\ pc = "call"
    /\ stdout = <<>>
    /\ aoi \in SeqsUpTo(AoiRow, MaxRows)
    /\ shape \in SeqsUpTo(ShapeRow, MaxRows)
    /\ intersect \in BOOLEAN
    /\ phase = "try"
    /\ exc = ""
    /\ new = <<>>
    /\ temp_shape = <<>>
    /\ osm_id = <<>>
    /\ saved = Absent
    /\ ret = "None"
    /\ calls = <<>>
    /\ IdleLoad /\ IdlePlot /\ IdlePeel /\ IdleImage

Enter ==
    /\ pc = "call"
    /\ IF intersect
       THEN /\ Emit("Intersecting {save_fp} with aoi...")
            /\ pc' = "overlay"
       ELSE /\ pc' = "sjoin"
            /\ UNCHANGED stdout
    /\ UNCHANGED clipVars
    /\ UNCHANGED <<loadVars, plotVars, peelVars, imageVars>>

OverlayOk ==
    /\ pc = "overlay"
    /\ new' = OverlayIntersection(aoi, shape)
    /\ Called("overlay", TRUE)
    /\ Emit("Dumping to new shapefile to file...")
    /\ pc' = "write_new"
    /\ UNCHANGED <<aoi, shape, intersect, phase, exc, temp_shape, osm_id, saved, ret>>
    /\ UNCHANGED <<loadVars, plotVars, peelVars, imageVars>>

OverlayRaise ==
    /\ pc = "overlay"
    /\ Called("overlay", FALSE)
    /\ Raise("overlay failed")
    /\ UNCHANGED <<stdout, aoi, shape, intersect, phase, new, temp_shape, osm_id, saved, ret>>
    /\ UNCHANGED <<loadVars, plotVars, peelVars, imageVars>>

WriteNewOk ==
    /\ pc = "write_new"
    /\ saved' = Written(new)
    /\ Called("to_file", TRUE)
    /\ new' = <<>>
    /\ ret' = "True"
    /\ pc' = "done"
    /\ UNCHANGED <<stdout, aoi, shape, intersect, phase, exc, temp_shape, osm_id>>
    /\ UNCHANGED <<loadVars, plotVars, peelVars, imageVars>>

WriteNewRaise ==
    /\ pc = "write_new"
    /\ saved' \in {saved, Partial}
    /\ Called("to_file", FALSE)
    /\ Raise("to_file failed")
    /\ UNCHANGED <<stdout, aoi, shape, intersect, phase, new, temp_shape, osm_id, ret>>
    /\ UNCHANGED <<loadVars, plotVars, peelVars, imageVars>>

SJoinOk ==
    /\ pc = "sjoin"
    /\ osm_id' = <<>>
    /\ temp_shape' = SJoin(aoi, shape)
    /\ Called("sjoin", TRUE)
    /\ pc' = "getitem"
    /\ UNCHANGED <<stdout, aoi, shape, intersect, phase, exc, new, saved, ret>>
    /\ UNCHANGED <<loadVars, plotVars, peelVars, imageVars>>

SJoinRaise ==
    /\ pc = "sjoin"
    /\ osm_id' = <<>>
    /\ Called("sjoin", FALSE)
    /\ Raise("sjoin failed")
    /\ UNCHANGED <<stdout, aoi, shape, intersect, phase, new, temp_shape, saved, ret>>
    /\ UNCHANGED <<loadVars, plotVars, peelVars, imageVars>>

GetItemOk ==
    /\ pc = "getitem"
    /\ osm_id' = Column(temp_shape, "osm_id")
    /\ Called("getitem", TRUE)
    /\ pc' = "write_sel"
    /\ UNCHANGED <<stdout, aoi, shape, intersect, phase, exc, new, temp_shape, saved, ret>>
    /\ UNCHANGED <<loadVars, plotVars, peelVars, imageVars>>

GetItemRaise ==
    /\ pc = "getitem"
    /\ Called("getitem", FALSE)
    /\ Raise("'osm_id'")
    /\ UNCHANGED <<stdout, aoi, shape, intersect, phase, new, temp_shape, osm_id, saved, ret>>
    /\ UNCHANGED <<loadVars, plotVars, peelVars, imageVars>>

\* The selection assigned back to shape (an in-place filter).
WriteSelOkInPlace ==
    /\ pc = "write_sel"
    /\ shape' = BoolIndex(shape, Isin(Column(shape, "osm_id"), osm_id))
    /\ saved' = Written(shape')
    /\ Called("to_file", TRUE)
    /\ ret' = "True"
    /\ pc' = "done"
    /\ UNCHANGED <<stdout, aoi, intersect, phase, exc, new, temp_shape, osm_id>>
    /\ UNCHANGED <<loadVars, plotVars, peelVars, imageVars>>

WriteSelOk ==
    /\ pc = "write_sel"
    /\ saved' = Written(BoolIndex(shape, Isin(Column(shape, "osm_id"), osm_id)))
    /\ Called("to_file", TRUE)
    /\ ret' = "True"
    /\ pc' = "done"
    /\ UNCHANGED <<stdout, aoi, shape, intersect, phase, exc, new, temp_shape, osm_id>>
    /\ UNCHANGED <<loadVars, plotVars, peelVars, imageVars>>

WriteSelRaise ==
    /\ pc = "write_sel"
    /\ saved' \in {saved, Partial}
    /\ Called("to_file", FALSE)
    /\ Raise("to_file failed")
    /\ UNCHANGED <<stdout, aoi, shape, intersect, phase, new, temp_shape, osm_id, ret>>
    /\ UNCHANGED <<loadVars, plotVars, peelVars, imageVars>>

\* The fallback run outside any try block.
ExceptUnguarded ==
    /\ pc = "except"
    /\ stdout' = stdout \o <<exc, "Trying a join method to compare polygon and 1D/dot geometries.">>
    /\ phase' = "none"
    /\ pc' = "sjoin"
    /\ UNCHANGED <<aoi, shape, intersect, exc, new, temp_shape, osm_id, saved, ret, calls>>
    /\ UNCHANGED <<loadVars, plotVars, peelVars, imageVars>>

\* The handler giving up without the fallback.
ExceptGiveUp ==
    /\ pc = "except"
    /\ stdout' = stdout \o <<exc, "Error dumping to file, giving up!">>
    /\ ret' = "False"
    /\ pc' = "done"
    /\ UNCHANGED <<aoi, shape, intersect, phase, exc, new, temp_shape, osm_id, saved, calls>>
    /\ UNCHANGED <<loadVars, plotVars, peelVars, imageVars>>

Except ==
    /\ pc = "except"
    /\ stdout' = stdout \o <<exc, "Trying a join method to compare polygon and 1D/dot geometries.">>
    /\ phase' = "fallback"
    /\ pc' = "sjoin"
    /\ UNCHANGED <<aoi, shape, intersect, exc, new, temp_shape, osm_id, saved, ret, calls>>
    /\ UNCHANGED <<loadVars, plotVars, peelVars, imageVars>>

\* The inner handler returning True.
Except2ReturnsTrue ==
    /\ pc = "except2"
    /\ stdout' = stdout \o <<exc, "Error dumping to file, giving up!">>
    /\ ret' = "True"
    /\ pc' = "done"
    /\ UNCHANGED <<aoi, shape, intersect, phase, exc, new, temp_shape, osm_id, saved, calls>>
    /\ UNCHANGED <<loadVars, plotVars, peelVars, imageVars>>

Except2 ==
    /\ pc = "except2"
    /\ stdout' = stdout \o <<exc, "Error dumping to file, giving up!">>
    /\ ret' = "False"
    /\ pc' = "done"
    /\ UNCHANGED <<aoi, shape, intersect, phase, exc, new, temp_shape, osm_id, saved, calls>>
    /\ UNCHANGED <<loadVars, plotVars, peelVars, imageVars>>

NextSubsetAoi ==
    \/ Enter
    \/ OverlayOk
    \/ OverlayRaise
    \/ WriteNewOk
    \/ WriteNewRaise
    \/ SJoinOk
    \/ SJoinRaise
    \/ GetItemOk
    \/ GetItemRaise
    \/ WriteSelOk
    \/ WriteSelRaise
    \/ Except
    \/ Except2

SpecSubsetAoi == InitSubsetAoi /\ [][NextSubsetAoi]_vars

(***************************************************************************)
(* Properties of subset_aoi                                                *)
(***************************************************************************)
\* A strategy attempt starts with its overlay or sjoin call.
StrategyStarts == {k \in 1..Len(calls) : calls[k].fn \in {"overlay", "sjoin"}}
NumAttempts == Cardinality(StrategyStarts)
AttemptOf(k) == Cardinality({s \in StrategyStarts : s <= k})
AttemptRaised(n) == \E k \in 1..Len(calls) : AttemptOf(k) = n /\ ~calls[k].ok
AttemptStrategy(n) == calls[CHOOSE s \in StrategyStarts : AttemptOf(s) = n].fn
ToFileCalls == {k \in 1..Len(calls) : calls[k].fn = "to_file"}
LastWriteOk ==
    /\ ToFileCalls # {}
    /\ calls[CHOOSE k \in ToFileCalls : \A m \in ToFileCalls : m <= k].ok
ErrorLines == {"overlay failed", "sjoin failed", "'osm_id'", "to_file failed"}
FallbackLogged ==
    \E k \in 1..(Len(stdout) - 1) :
        /\ stdout[k] \in ErrorLines
        /\ stdout[k + 1] = "Trying a join method to compare polygon and 1D/dot geometries."

\* The rows of shape whose identifier occurs among the intersects-join of
\* aoi with shape, by position.
JoinedIds ==
    {shape[j].osm_id : j \in {m \in 1..Len(shape) :
        \E i \in 1..Len(aoi) : aoi[i].geometry \cap shape[m].geometry # {}}}
KeptIdx == {j \in 1..Len(shape) : shape[j].osm_id \in JoinedIds}
IsJoinSelection(rows) ==
    /\ Len(rows) = Cardinality(KeptIdx)
    /\ \A k \in 1..Len(rows) :
          rows[k] = shape[CHOOSE j \in KeptIdx : Cardinality({m \in KeptIdx : m <= j}) = k]

\* C1: subset_aoi never raises to its caller: whatever the overlay, the
\* spatial join, the column lookup and the write do, the call goes on until
\* it returns, and what it returns is True or False.
C1_NeverRaises ==
    /\ pc # "raised"
    /\ pc = "done" => ret \in {"True", "False"}
    /\ pc # "done" => ENABLED NextSubsetAoi

C1_Witness ==
    /\ pc = "done"
    /\ ret = "False"
    /\ intersect
    /\ Len(calls) = 5

\* C2: one-shot fallback: the first strategy is the one asked for; a second
\* attempt is made exactly when the first raised, it is the join, and the
\* error was logged before it; False is returned only after two raised
\* attempts; there are never more than two attempts.
C2_OneShotFallback ==
    /\ NumAttempts <= 2
    /\ NumAttempts >= 1 => AttemptStrategy(1) = (IF intersect THEN "overlay" ELSE "sjoin")
    /\ NumAttempts = 2 => /\ AttemptRaised(1)
                          /\ AttemptStrategy(2) = "sjoin"
                          /\ FallbackLogged
    /\ ret = "False" => NumAttempts = 2 /\ AttemptRaised(1) /\ AttemptRaised(2)
    /\ pc = "done" => NumAttempts = (IF AttemptRaised(1) THEN 2 ELSE 1)

C2_Witness ==
    /\ pc = "done"
    /\ ret = "True"
    /\ ~intersect
    /\ NumAttempts = 2
    /\ AttemptRaised(1)
    /\ ~AttemptRaised(2)

\* C3: with intersect false, a successful call leaves at the output path
\* exactly the rows of shape whose osm_id occurs among the rows of the
\* intersects-join, whole and in shape's order.
C3_JoinSelectionWritten ==
    (~intersect /\ ret = "True") =>
        /\ saved.state = "written"
        /\ IsJoinSelection(saved.rows)

C3_Witness ==
    /\ ~intersect
    /\ ret = "True"
    /\ Len(shape) = 2
    /\ Len(saved.rows) = 1
    /\ saved.rows[1] = shape[2]

C10_FileIsSucceedingStrategy ==
    ret = "True" =>
        /\ LastWriteOk
        /\ saved.state = "written"
        /\ IF intersect /\ ~AttemptRaised(1)
           THEN saved.rows = OverlayIntersection(aoi, shape)
           ELSE IsJoinSelection(saved.rows)

C10_Witness ==
    /\ ret = "True"
    /\ intersect
    /\ Len(calls) = 5
    /\ calls[1].ok
    /\ ~calls[2].ok
    /\ saved.rows # <<>>
    /\ saved.rows # OverlayIntersection(aoi, shape)

(***************************************************************************)
(* load_shapefile                                                          *)
(***************************************************************************)
MaxZips == 2

Zips == {"94110", "94305"}
ZctaRow == [ZCTA5CE10 : Zips, geometry : Geoms]

\* "zipcodes is not None" in place of the truth value of the list.
TruthyAlways(list) == TRUE
\* The truth value of a Python list: false exactly when it is empty.
Truthy(list) == Len(list) # 0

InitLoadShapefile ==
    /\ pc = "read"
    /\ stdout = <<>>
    /\ shp \in SeqsUpTo(ZctaRow, MaxRows)
    /\ zipcodes \in SeqsUpTo(Zips, MaxZips)
    /\ data = <<>>
    /\ loaded = <<>>
    /\ IdleClip /\ IdlePlot /\ IdlePeel /\ IdleImage

ReadFileOk ==
    /\ pc = "read"
    /\ data' = shp
    /\ pc' = "filter"
    /\ UNCHANGED <<stdout, shp, zipcodes, loaded>>
    /\ UNCHANGED <<clipVars, plotVars, peelVars, imageVars>>

\* A read failure is not handled: it propagates to the caller.
ReadFileRaise ==
    /\ pc = "read"
    /\ pc' = "raised"
    /\ UNCHANGED <<stdout, loadVars>>
    /\ UNCHANGED <<clipVars, plotVars, peelVars, imageVars>>

FilterZipcodes ==
    /\ pc = "filter"
    /\ data' = IF Truthy(zipcodes)
               THEN BoolIndex(data, Isin(Column(data, "ZCTA5CE10"), zipcodes))
               ELSE data
    /\ pc' = "return"
    /\ UNCHANGED <<stdout, shp, zipcodes, loaded>>
    /\ UNCHANGED <<clipVars, plotVars, peelVars, imageVars>>

ReturnData ==
    /\ pc = "return"
    /\ loaded' = data
    /\ pc' = "done"
    /\ UNCHANGED <<stdout, shp, zipcodes, data>>
    /\ UNCHANGED <<clipVars, plotVars, peelVars, imageVars>>

NextLoadShapefile ==
    \/ ReadFileOk
    \/ ReadFileRaise
    \/ FilterZipcodes
    \/ ReturnData

SpecLoadShapefile == InitLoadShapefile /\ [][NextLoadShapefile]_vars

(***************************************************************************)
(* Properties of load_shapefile                                            *)
(***************************************************************************)
ZipSet == {zipcodes[k] : k \in 1..Len(zipcodes)}
ZipIdx == {j \in 1..Len(shp) : shp[j].ZCTA5CE10 \in ZipSet}

\* C4: load_shapefile returns exactly the rows of the dataset whose
\* ZCTA5CE10 is among zipcodes, in the dataset's order; with an empty
\* zipcodes it returns the dataset unchanged.
C4_LoadSubset ==
    pc = "done" =>
        IF zipcodes = <<>>
        THEN loaded = shp
        ELSE /\ Len(loaded) = Cardinality(ZipIdx)
             /\ \A k \in 1..Len(loaded) :
                   loaded[k] = shp[CHOOSE j \in ZipIdx : Cardinality({m \in ZipIdx : m <= j}) = k]

C4_Witness ==
    /\ pc = "done"
    /\ Len(shp) = 2
    /\ zipcodes # <<>>
    /\ loaded = <<shp[2]>>
    /\ shp[1].ZCTA5CE10 # shp[2].ZCTA5CE10

(***************************************************************************)
(* plot_shapefile                                                          *)
(***************************************************************************)
PaletteSize == 12
MaxLayers == 14

\* sns.color_palette("Paired"): a list of PaletteSize colors (all 12 of the
\* qualitative palette; seaborn releases that cut named palettes short give
\* 6).  The list is finite either way.
Palette == [k \in 1..PaletteSize |-> <<"Paired", k - 1>>]

\* iter(list): a one-pass iterator, the position of the next item with it.
Iter(list) == [kind |-> "iter", items |-> list, pos |-> 1]
Str(value) == [kind |-> "str", items |-> <<value>>, pos |-> 1]
Exhausted(it) == it.pos > Len(it.items)

SettingKeys == {"save", "format", "edgecolor", "color"}
SettingValue(key) ==
    CASE key = "save" -> Str("layers.pdf")
      [] key = "format" -> Str("pdf")
      [] key = "edgecolor" -> Str("black")
      [] key = "color" -> Str("none")

\* The dicts a caller passes: any subset of the recognised keys.
GraphSettings == {[key \in keys |-> SettingValue(key)] : keys \in SUBSET SettingKeys}

Defaults ==
    [save |-> Str(""), format |-> Str("png"),
     edgecolor |-> Iter(Palette), color |-> Iter(Palette)]

Merge(base, over) ==
    [key \in DOMAIN base |-> IF key \in DOMAIN over THEN over[key] ELSE base[key]]

\* type(x) != str: the color source is consumed with next().
IsStr(src) == src.kind = "str"
Current(src) == src.items[src.pos]
Advance(src) == IF IsStr(src) THEN src ELSE [src EXCEPT !.pos = @ + 1]

InitPlotShapefile ==
    /\ pc = "setup"
    /\ stdout = <<>>
    /\ \E count \in 0..MaxLayers : shapefiles = [k \in 1..count |-> <<"layer", k>>]
    /\ graph_settings \in GraphSettings
    /\ default = <<>>
    /\ canvas = <<>>
    /\ plot_i = 0
    /\ style = "darkgrid"
    /\ figfile = <<>>
    /\ IdleClip /\ IdleLoad /\ IdlePeel /\ IdleImage

Setup ==
    /\ pc = "setup"
    /\ default' = IF DOMAIN graph_settings # {} THEN Merge(Defaults, graph_settings) ELSE Defaults
    /\ canvas' = <<>>
    /\ plot_i' = 0
    /\ pc' = "for"
    /\ UNCHANGED <<stdout, shapefiles, graph_settings, style, figfile>>
    /\ UNCHANGED <<clipVars, loadVars, peelVars, imageVars>>

\* One pass of the loop body whose next() calls find an item.
PlotLayer ==
    /\ pc = "for"
    /\ Len(canvas) < Len(shapefiles)
    /\ ~(~IsStr(default.edgecolor) /\ Exhausted(default.edgecolor))
    /\ ~(~IsStr(default.color) /\ Exhausted(default.color))
    /\ canvas' = Append(canvas, [layer |-> shapefiles[Len(canvas) + 1],
                                 color |-> Current(default.color),
                                 edgecolor |-> Current(default.edgecolor)])
    /\ default' = [default EXCEPT !.edgecolor = Advance(@), !.color = Advance(@)]
    /\ plot_i' = plot_i + 1
    /\ UNCHANGED <<pc, stdout, shapefiles, graph_settings, style, figfile>>
    /\ UNCHANGED <<clipVars, loadVars, peelVars, imageVars>>

\* next() on an exhausted iterator raises StopIteration, which nothing here
\* catches.  The edge color is taken first.
PlotLayerStopIteration ==
    /\ pc = "for"
    /\ Len(canvas) < Len(shapefiles)
    /\ \/ ~IsStr(default.edgecolor) /\ Exhausted(default.edgecolor)
       \/ ~IsStr(default.color) /\ Exhausted(default.color)
    /\ pc' = "raised"
    /\ UNCHANGED <<stdout, plotVars>>
    /\ UNCHANGED <<clipVars, loadVars, peelVars, imageVars>>

Finish ==
    /\ pc = "for"
    /\ Len(canvas) = Len(shapefiles)
    /\ style' = "whitegrid"
    /\ figfile' = IF Current(default.save) # ""
                  THEN <<[path |-> Current(default.save),
                          format |-> Current(default.format),
                          drawn |-> canvas]>>
                  ELSE figfile
    /\ pc' = "done"
    /\ UNCHANGED <<stdout, shapefiles, graph_settings, default, canvas, plot_i>>
    /\ UNCHANGED <<clipVars, loadVars, peelVars, imageVars>>

NextPlotShapefile ==
    \/ Setup
    \/ PlotLayer
    \/ PlotLayerStopIteration
    \/ Finish

SpecPlotShapefile == InitPlotShapefile /\ [][NextPlotShapefile]_vars

(***************************************************************************)
(* Properties of plot_shapefile                                            *)
(***************************************************************************)
DefaultColorSources ==
    /\ "edgecolor" \notin DOMAIN graph_settings
    /\ "color" \notin DOMAIN graph_settings

\* C6: with the default color sources every layer of a list of any length
\* is drawn, the i-th (from 0) with palette color i mod PaletteSize for edge
\* and fill; a list longer than the palette wraps around and does not fail.
C6_CyclicColors ==
    (DefaultColorSources /\ pc \in {"done", "raised"}) =>
        /\ pc = "done"
        /\ Len(canvas) = Len(shapefiles)
        /\ \A k \in 1..Len(canvas) :
              /\ canvas[k].layer = shapefiles[k]
              /\ canvas[k].color = Palette[((k - 1) % PaletteSize) + 1]
              /\ canvas[k].edgecolor = Palette[((k - 1) % PaletteSize) + 1]

(***************************************************************************)
(* show_image                                                              *)
(***************************************************************************)
MaxBands == 5

\* Pixel positions (row, column) of the decoded array and the band values.
Pixels == {<<0, 0>>, <<0, 1>>}
Levels == {0, 255}

\* The arrays with a given number of bands: position -> band values.
Arrays(bands) == [Pixels -> [1..bands -> Levels]]

Min(a, b) == IF a < b THEN a ELSE b

\* seq[start:stop] of Python on a sequence, 0-based, stop clipped to the length.
PySlice(seq, start, stop) == SubSeq(seq, start + 1, Min(stop, Len(seq)))

\* The slice :3 taken whether or not infrared is set.
InfraredWindowAsRgb(arr) == [px \in DOMAIN arr |-> PySlice(arr[px], 0, 3)]
\* im[:,:,1:]
InfraredWindow(arr) == [px \in DOMAIN arr |-> PySlice(arr[px], 1, Len(arr[px]))]
\* im[:,:,:3]
RgbWindow(arr) == [px \in DOMAIN arr |-> PySlice(arr[px], 0, 3)]

BandCount(arr) == Len(arr[<<0, 0>>])

\* plt.imshow takes an (M, N, 3) or (M, N, 4) array and rejects other depths.
ImshowAccepts(arr) == BandCount(arr) \in {3, 4}

InitShowImage ==
    /\ pc = "open"
    /\ stdout = <<>>
    /\ \E bands \in 3..MaxBands : raster \in Arrays(bands)
    /\ infrared \in BOOLEAN
    /\ save_path \in {"", "view.png"}
    /\ im = <<>>
    /\ displayed = <<>>
    /\ imgfile = <<>>
    /\ IdleClip /\ IdleLoad /\ IdlePlot /\ IdlePeel

OpenImageOk ==
    /\ pc = "open"
    /\ im' = raster
    /\ pc' = "slice"
    /\ UNCHANGED <<stdout, raster, infrared, save_path, displayed, imgfile>>
    /\ UNCHANGED <<clipVars, loadVars, plotVars, peelVars>>

OpenImageRaise ==
    /\ pc = "open"
    /\ pc' = "raised"
    /\ UNCHANGED <<stdout, imageVars>>
    /\ UNCHANGED <<clipVars, loadVars, plotVars, peelVars>>

SliceBands ==
    /\ pc = "slice"
    /\ im' = IF infrared THEN InfraredWindow(im) ELSE RgbWindow(im)
    /\ pc' = "imshow"
    /\ UNCHANGED <<stdout, raster, infrared, save_path, displayed, imgfile>>
    /\ UNCHANGED <<clipVars, loadVars, plotVars, peelVars>>

Imshow ==
    /\ pc = "imshow"
    /\ displayed' = <<im>>
    /\ pc' = IF ImshowAccepts(im) THEN "save" ELSE "raised"
    /\ UNCHANGED <<stdout, raster, infrared, save_path, im, imgfile>>
    /\ UNCHANGED <<clipVars, loadVars, plotVars, peelVars>>

SaveFigure ==
    /\ pc = "save"
    /\ imgfile' = IF save_path # "" THEN <<[path |-> save_path, image |-> im]>> ELSE imgfile
    /\ pc' = "done"
    /\ UNCHANGED <<stdout, raster, infrared, save_path, im, displayed>>
    /\ UNCHANGED <<clipVars, loadVars, plotVars, peelVars>>

NextShowImage ==
    \/ OpenImageOk
    \/ OpenImageRaise
    \/ SliceBands
    \/ Imshow
    \/ SaveFigure

SpecShowImage == InitShowImage /\ [][NextShowImage]_vars

(***************************************************************************)
(* Properties of show_image                                                *)
(***************************************************************************)
\* C7: on a 4-band input the array displayed holds, at every pixel, bands
\* 1, 2, 3 of the source in that order when infrared is set and bands
\* 0, 1, 2 otherwise (bands counted from 0).
C7_FourBandWindow ==
    (BandCount(raster) = 4 /\ displayed # <<>>) =>
        \A px \in Pixels :
            displayed[1][px] =
                IF infrared
                THEN <<raster[px][2], raster[px][3], raster[px][4]>>
                ELSE <<raster[px][1], raster[px][2], raster[px][3]>>

C7_Witness ==
    /\ pc = "done"
    /\ infrared
    /\ BandCount(raster) = 4
    /\ displayed # <<>>
    /\ raster[<<0, 0>>] = <<0, 255, 255, 0>>
    /\ raster[<<0, 1>>] = <<255, 0, 0, 255>>

\* C8: the array handed to the display call has 3 bands, for every input of
\* at least 3 bands without infrared and every input of at least 4 bands
\* (5 and more included) with it.
C8_ThreeBandWindow ==
    (displayed # <<>> /\ BandCount(raster) >= (IF infrared THEN 4 ELSE 3)) =>
        BandCount(displayed[1]) = 3

(***************************************************************************)
(* peel_geodatabase                                                        *)
(***************************************************************************)
MaxGdbLayers == 2
MaxFeatures == 2

GeometryLayer == "ACS_2016_5YR_BG_06_CALIFORNIA"
TableLayers == {"X01_AGE_AND_SEX", "X19_INCOME"}
LayerNames == {GeometryLayer} \cup TableLayers

\* Attribute rows, and the features of a layer: a geometry-bearing layer's
\* features carry a geometry, a table's carry none.
Properties == {"row_a", "row_b"}
FeaturesOf(name) ==
    [geometry : (IF name = GeometryLayer THEN {"polygon"} ELSE {"None"}),
     properties : Properties]
CrsOf(name) == IF name = GeometryLayer THEN "epsg:4269" ELSE "None"
SchemaOf(name) == <<"schema", name>>

\* The geodatabases: layers of distinct names, each with its features.
GdbLayer ==
    UNION {[name : {name}, crs : {CrsOf(name)}, schema : {SchemaOf(name)},
            features : SeqsUpTo(FeaturesOf(name), MaxFeatures)] : name \in LayerNames}
Geodatabases ==
    {g \in SeqsUpTo(GdbLayer, MaxGdbLayers) :
        \A a, b \in 1..Len(g) : g[a].name = g[b].name => a = b}

ShpPath(name) == <<"./data/ACS2016/", name, ".shp">>
CsvPath(name) == <<"./data/ACS2016/", name, ".csv">>
OutPaths == {ShpPath(name) : name \in LayerNames} \cup {CsvPath(name) : name \in LayerNames}

NoFile == [kind |-> "absent", crs |-> "None", schema |-> <<>>, rows |-> <<>>]

\* fiona.open(path, layer=...): the collection of the layer of that name.
Collection(name) == gdb[CHOOSE k \in 1..Len(gdb) : gdb[k].name = name]

\* pd.DataFrame(features).to_csv(): one line per row, led by its index.
ToCsv(rows) == [k \in 1..Len(rows) |-> <<k - 1, rows[k]>>]

InitPeelGeodatabase ==
    /\ pc = "listlayers"
    /\ stdout = <<>>
    /\ gdb \in Geodatabases
    /\ layers = <<>>
    /\ layer_ix = 0
    /\ layer_name = ""
    /\ features = <<>>
    /\ fi = 0
    /\ files = [path \in OutPaths |-> NoFile]
    /\ IdleClip /\ IdleLoad /\ IdlePlot /\ IdleImage

ListLayers ==
    /\ pc = "listlayers"
    /\ layers' = [k \in 1..Len(gdb) |-> gdb[k].name]
    /\ pc' = "for"
    /\ UNCHANGED <<stdout, gdb, layer_ix, layer_name, features, fi, files>>
    /\ UNCHANGED <<clipVars, loadVars, plotVars, imageVars>>

\* The loop taking the next layer without emptying features.
ForLayerKeepFeatures ==
    /\ pc = "for"
    /\ layer_ix < Len(layers)
    /\ layer_name' = layers[layer_ix + 1]
    /\ layer_ix' = layer_ix + 1
    /\ pc' = "open"
    /\ UNCHANGED <<stdout, gdb, layers, features, fi, files>>
    /\ UNCHANGED <<clipVars, loadVars, plotVars, imageVars>>

ForLayer ==
    /\ pc = "for"
    /\ layer_ix < Len(layers)
    /\ layer_name' = layers[layer_ix + 1]
    /\ layer_ix' = layer_ix + 1
    /\ features' = <<>>
    /\ pc' = "open"
    /\ UNCHANGED <<stdout, gdb, layers, fi, files>>
    /\ UNCHANGED <<clipVars, loadVars, plotVars, imageVars>>

ForDone ==
    /\ pc = "for"
    /\ layer_ix = Len(layers)
    /\ pc' = "done"
    /\ UNCHANGED <<stdout, peelVars>>
    /\ UNCHANGED <<clipVars, loadVars, plotVars, imageVars>>

\* Opening the layer, then the branch on its name: the geometry layer opens
\* its sink (a new, empty shapefile with the collection's crs and schema).
OpenLayer ==
    /\ pc = "open"
    /\ fi' = 0
    /\ IF layer_name = GeometryLayer
       THEN /\ stdout' = Append(stdout, <<"Dumping", layer_name, "to shapefile">>)
            /\ files' = [files EXCEPT ![ShpPath(layer_name)] =
                            [kind |-> "shp", crs |-> Collection(layer_name).crs,
                             schema |-> Collection(layer_name).schema, rows |-> <<>>]]
            /\ pc' = "copy"
       ELSE /\ stdout' = Append(stdout, <<"Dumping", layer_name, "to csv">>)
            /\ files' = files
            /\ pc' = "collect"
    /\ UNCHANGED <<gdb, layers, layer_ix, layer_name, features>>
    /\ UNCHANGED <<clipVars, loadVars, plotVars, imageVars>>

\* sink.write(feature) for the next feature of the collection.
CopyFeature ==
    /\ pc = "copy"
    /\ fi < Len(Collection(layer_name).features)
    /\ files' = [files EXCEPT ![ShpPath(layer_name)].rows =
                    Append(@, Collection(layer_name).features[fi + 1])]
    /\ fi' = fi + 1
    /\ UNCHANGED <<pc, stdout, gdb, layers, layer_ix, layer_name, features>>
    /\ UNCHANGED <<clipVars, loadVars, plotVars, imageVars>>

CopyDone ==
    /\ pc = "copy"
    /\ fi = Len(Collection(layer_name).features)
    /\ pc' = "for"
    /\ UNCHANGED <<stdout, peelVars>>
    /\ UNCHANGED <<clipVars, loadVars, plotVars, imageVars>>

\* features.append(feature['properties']) for the next feature.
CollectFeature ==
    /\ pc = "collect"
    /\ fi < Len(Collection(layer_name).features)
    /\ features' = Append(features, Collection(layer_name).features[fi + 1].properties)
    /\ fi' = fi + 1
    /\ UNCHANGED <<pc, stdout, gdb, layers, layer_ix, layer_name, files>>
    /\ UNCHANGED <<clipVars, loadVars, plotVars, imageVars>>

WriteCsv ==
    /\ pc = "collect"
    /\ fi = Len(Collection(layer_name).features)
    /\ files' = [files EXCEPT ![CsvPath(layer_name)] =
                    [kind |-> "csv", crs |-> "None", schema |-> <<>>, rows |-> ToCsv(features)]]
    /\ pc' = "for"
    /\ UNCHANGED <<stdout, gdb, layers, layer_ix, layer_name, features, fi>>
    /\ UNCHANGED <<clipVars, loadVars, plotVars, imageVars>>

\* An I/O failure of a library call is not handled: it ends the run.
IoError ==
    /\ pc \in {"listlayers", "open", "copy", "collect"}
    /\ pc' = "raised"
    /\ UNCHANGED <<stdout, peelVars>>
    /\ UNCHANGED <<clipVars, loadVars, plotVars, imageVars>>

NextPeelGeodatabase ==
    \/ ListLayers
    \/ ForLayer
    \/ ForDone
    \/ OpenLayer
    \/ CopyFeature
    \/ CopyDone
    \/ CollectFeature
    \/ WriteCsv
    \/ IoError

SpecPeelGeodatabase == InitPeelGeodatabase /\ [][NextPeelGeodatabase]_vars

(***************************************************************************)
(* Properties of peel_geodatabase                                          *)
(***************************************************************************)
WrittenPaths == {path \in OutPaths : files[path].kind # "absent"}

====
